---- MODULE Spec2Model ----
(***************************************************************************)
(* vite-plugin-robots-txt: the robots.txt content synthesis                *)
(* (uniq, lines, serializePolicies, buildContent) and the two plugin       *)
(* objects that use it:                                                    *)
(*   src/unnamed/part_000  vite/plugins/generate-robots.ts  (emitFile)     *)
(*   src/unnamed/part_001  src/index.ts                     (file write)   *)
(* A JavaScript string is modelled as the sequence of its characters, each *)
(* character a one-character TLA+ string; an optional value (undefined or  *)
(* a value) as a record [some, val].                                       *)
(***************************************************************************)
EXTENDS Naturals, Sequences, FiniteSets

VARIABLES
    file,        \* which source file's plugin object this is
    options,     \* the RobotsOptions given to generateRobotsTxt
    mode,        \* closure variable  let mode
    command,     \* closure variable  let command
    root,        \* closure variable  let root
    base,        \* resolvedConfig?.base   (part_000 only)
    outPath,     \* closure variable  let outPath  (part_001 only)
    lastTxt,     \* closure variable  let lastTxt  (part_000 only)
    route,       \* the route the middleware is registered on
    fs,          \* the file system: directories and files
    writes,      \* number of fs.writeFileSync calls so far
    wrote,       \* what the last writeFileIfChanged call did
    emitted,     \* the asset handed to this.emitFile
    response,    \* the last HTTP response of the middleware
    call,        \* the last buildContent / serializePolicies call, observed
    input        \* the argument of the pure-function specifications

vars == <<file, options, mode, command, root, base, outPath, lastTxt, route,
          fs, writes, wrote, emitted, response, call, input>>

----------------------------------------------------------------------------
(* Bounds of the model *)

\* size of a policy set: one per policy, one more per userAgent given, one
\* per allow or disallow entry
MaxSize == 5
\* entries of a sitemap list
MaxSitemaps == 2
\* fs.writeFileSync calls followed
MaxWrites == 3

----------------------------------------------------------------------------
(* Optional values and characters *)

None == [some |-> FALSE, val |-> <<>>]
Some(x) == [some |-> TRUE, val |-> x]

\* the characters \s matches, among those the model's strings are made of
WS == {" ", "\t", "\n", "\r"}
\* the characters before which a multiline $ matches
LineTerminators == {"\n", "\r"}

NL == <<"\n">>
STAR == <<"*">>
UA_PREFIX == <<"U", "s", "e", "r", "-", "a", "g", "e", "n", "t", ":", " ">>
DISALLOW_PREFIX == <<"D", "i", "s", "a", "l", "l", "o", "w", ":", " ">>
ALLOW_PREFIX == <<"A", "l", "l", "o", "w", ":", " ">>
SITEMAP_PREFIX == <<"S", "i", "t", "e", "m", "a", "p", ":", " ">>
FOOTER_PREFIX == <<"#", " ">>
DEFAULT_FILENAME == "robots.txt"

Max(S) == CHOOSE x \in S : \A y \in S : y <= x
Min(S) == CHOOSE x \in S : \A y \in S : x <= y

----------------------------------------------------------------------------
(* String.prototype methods and Array.prototype.join *)

RECURSIVE trimEnd(_)
trimEnd(s) ==
    IF s = <<>> \/ s[Len(s)] \notin WS THEN s
    ELSE trimEnd(SubSeq(s, 1, Len(s) - 1))

RECURSIVE trimStart(_)
trimStart(s) ==
    IF s = <<>> \/ s[1] \notin WS THEN s
    ELSE trimStart(Tail(s))

trim(s) == trimEnd(trimStart(s))

RECURSIVE join(_, _)
join(xs, sep) ==
    IF xs = <<>> THEN <<>>
    ELSE IF Len(xs) = 1 THEN xs[1]
    ELSE xs[1] \o sep \o join(Tail(xs), sep)

\* the end (exclusive) of the whitespace run that starts at a
RunEnd(s, a) ==
    Min({e \in (a + 1)..(Len(s) + 1) : e = Len(s) + 1 \/ s[e] \notin WS})

\* The end (exclusive) of the match of /\s+$/m that starts at a, 0 if none:
\* \s+ takes the whole run and gives characters back until $ matches, which
\* it does at the end of the input or before a line terminator.
MatchEnd(s, a) ==
    LET e == RunEnd(s, a)
        ks == {k \in (a + 1)..(e - 1) : s[k] \in LineTerminators}
    IN  IF e = Len(s) + 1 THEN e
        ELSE IF ks = {} THEN 0
        ELSE Max(ks)

\* s.replace(/\s+$/m, ""): no g flag, so the leftmost match only
replaceFirstTrailingWs(s) ==
    LET starts == {a \in 1..Len(s) : s[a] \in WS /\ MatchEnd(s, a) > 0}
    IN  IF starts = {} THEN s
        ELSE LET a == Min(starts)
             IN  SubSeq(s, 1, a - 1) \o SubSeq(s, MatchEnd(s, a), Len(s))

RECURSIVE trailingNewlines(_)
trailingNewlines(s) ==
    IF s = <<>> \/ s[Len(s)] # "\n" THEN 0
    ELSE 1 + trailingNewlines(SubSeq(s, 1, Len(s) - 1))

\* s.replace(/\n{3,}$/g, "\n\n"): $ is the end of the input here
collapseTail(s) ==
    LET c == trailingNewlines(s)
    IN  IF c >= 3 THEN SubSeq(s, 1, Len(s) - c) \o NL \o NL ELSE s

----------------------------------------------------------------------------
(* utils *)

\* uniq keeping the last occurrence of an entry instead of the first
RECURSIVE uniqKeepLast(_)
uniqKeepLast(arr) ==
    IF arr = <<>> THEN <<>>
    ELSE LET rest == uniqKeepLast(Tail(arr))
         IN  IF \E i \in 1..Len(rest) : rest[i] = arr[1] THEN rest
             ELSE <<arr[1]>> \o rest

RECURSIVE uniq(_)
uniq(arr) ==
    IF arr = <<>> THEN <<>>
    ELSE LET init == uniq(SubSeq(arr, 1, Len(arr) - 1))
             x == arr[Len(arr)]
         IN  IF \E i \in 1..Len(init) : init[i] = x THEN init
             ELSE Append(init, x)

\* uniq(arr?: T[]): arr ?? []
uniqOpt(arr) == uniq(IF arr.some THEN arr.val ELSE <<>>)

lines(xs) == SelectSeq(xs, LAMBDA x : x # <<>>)

\* the loop body of serializePolicies: the block of one policy
block(p) ==
    LET ua0 == trim(IF p.userAgent.some THEN p.userAgent.val ELSE STAR)
        ua == IF ua0 # <<>> THEN ua0 ELSE STAR
        d == uniqOpt(p.disallow)
        a == uniqOpt(p.allow)
        dis == [i \in 1..Len(d) |-> DISALLOW_PREFIX \o d[i]]
        allow == [i \in 1..Len(a) |-> ALLOW_PREFIX \o a[i]]
    IN  join(lines(<<UA_PREFIX \o ua>> \o dis \o allow \o <<<<>>>>), NL)

blocks(policies) == [i \in 1..Len(policies) |-> block(policies[i])]

\* part_000 ends  blocks.join("\n").trimEnd() + "\n",
\* part_001 ends  blocks.join("\n").replace(/\s+$/m, "") + "\n"
serializePolicies(f, policies) ==
    LET joined == join(blocks(policies), NL)
    IN  (IF f = "index" THEN replaceFirstTrailingWs(joined)
         ELSE trimEnd(joined)) \o NL

\* a default policy that disallows everything
defaultPoliciesDisallowAll ==
    <<[userAgent |-> Some(STAR), allow |-> Some(<<>>),
       disallow |-> Some(<<<<"/">>>>)]>>

defaultPolicies ==
    <<[userAgent |-> Some(STAR), allow |-> Some(<<<<"/">>>>),
       disallow |-> Some(<<>>)]>>

----------------------------------------------------------------------------
(* buildContent.  ctx is [mode, command, root]; a builder of the options   *)
(* is the function from the context's mode to what it returns.             *)

\* the builder consulted before the explicit list
resolvePoliciesBuilderFirst(ctx, opts) ==
    IF opts.policyBuilder.present
    THEN LET r == opts.policyBuilder.fn[ctx.mode]
         IN  [policies |-> IF r.some THEN r.val ELSE defaultPolicies,
              builderCalls |-> 1]
    ELSE IF opts.policies.some /\ Len(opts.policies.val) # 0
    THEN [policies |-> opts.policies.val, builderCalls |-> 0]
    ELSE [policies |-> defaultPolicies, builderCalls |-> 0]

\* const policies = explicit non-empty list ?? policyBuilder(ctx) ?? default;
\* builderCalls counts the invocations of opts.policyBuilder
resolvePolicies(ctx, opts) ==
    IF opts.policies.some /\ Len(opts.policies.val) # 0
    THEN [policies |-> opts.policies.val, builderCalls |-> 0]
    ELSE IF opts.policyBuilder.present
    THEN LET r == opts.policyBuilder.fn[ctx.mode]
         IN  [policies |-> IF r.some THEN r.val ELSE defaultPolicies,
              builderCalls |-> 1]
    ELSE [policies |-> defaultPolicies, builderCalls |-> 0]

\* const sitemaps = function ? opts.sitemaps(ctx) : array ? opts.sitemaps
\*                                                : undefined
resolveSitemaps(ctx, opts) ==
    IF opts.sitemaps.kind = "fn" THEN opts.sitemaps.fn[ctx.mode]
    ELSE IF opts.sitemaps.kind = "list" THEN Some(opts.sitemaps.list)
    ELSE None

\* a sitemap block that drops repeated urls
smBlockOfUniq(sitemaps) ==
    IF sitemaps.some /\ Len(sitemaps.val) # 0
    THEN join([i \in 1..Len(uniq(sitemaps.val)) |->
                   SITEMAP_PREFIX \o uniq(sitemaps.val)[i]], NL) \o NL
    ELSE <<>>

\* const smBlock = sitemaps?.length ? map(...).join("\n") + "\n" : ""
smBlockOf(sitemaps) ==
    IF sitemaps.some /\ Len(sitemaps.val) # 0
    THEN join([i \in 1..Len(sitemaps.val) |->
                   SITEMAP_PREFIX \o sitemaps.val[i]], NL) \o NL
    ELSE <<>>

\* const foot = function ? opts.footerComment(ctx)
\*                       : opts.footerComment ?? undefined
resolveFooter(ctx, opts) ==
    IF opts.footerComment.kind = "fn" THEN opts.footerComment.fn[ctx.mode]
    ELSE IF opts.footerComment.kind = "string"
    THEN Some(opts.footerComment.str)
    ELSE None

\* const footerBlock = foot ? `\n# ${foot.trim()}\n` : ""
footerBlockOf(foot) ==
    IF foot.some /\ foot.val # <<>>
    THEN NL \o FOOTER_PREFIX \o trim(foot.val) \o NL
    ELSE <<>>

\* the separating newline added even when there is no sitemap block
assembleAlwaysSeparated(head, smBlock, footerBlock) ==
    collapseTail(head \o NL \o smBlock \o footerBlock)

\* the returned text of buildContent
assemble(head, smBlock, footerBlock) ==
    collapseTail(head \o (IF smBlock # <<>> THEN NL \o smBlock ELSE <<>>)
                      \o footerBlock)

\* buildContent(ctx, opts) of file f, with the values of its local consts
buildContent(f, ctx, opts) ==
    LET res == resolvePolicies(ctx, opts)
        head == serializePolicies(f, res.policies)
        sitemaps == resolveSitemaps(ctx, opts)
        smBlock == smBlockOf(sitemaps)
        foot == resolveFooter(ctx, opts)
        footerBlock == footerBlockOf(foot)
    IN  [kind |-> "buildContent",
         policies |-> res.policies,
         builderCalls |-> res.builderCalls,
         blocks |-> blocks(res.policies),
         head |-> head,
         sitemaps |-> sitemaps,
         foot |-> foot,
         txt |-> assemble(head, smBlock, footerBlock)]

\* no call observed yet
NoCall ==
    [kind |-> "none", policies |-> <<>>, builderCalls |-> 0, blocks |-> <<>>,
     head |-> <<>>, sitemaps |-> None, foot |-> None, txt |-> <<>>]

\* serializePolicies(policies) of file f, observed
serializeCall(f, policies) ==
    [kind |-> "serializePolicies", policies |-> policies, builderCalls |-> 0,
     blocks |-> blocks(policies), head |-> serializePolicies(f, policies),
     sitemaps |-> None, foot |-> None, txt |-> <<>>]

----------------------------------------------------------------------------
(* Input domains *)

Files == {"generate-robots", "index"}
Modes == {"production", "development"}
Commands == {"build", "serve"}

\* path patterns: empty, plain, ending in a space
PathSet == {<<>>, <<"/">>, <<"/", " ">>}
\* userAgent: absent, blank, to be trimmed
UASet == {None, Some(<<" ">>), Some(<<" ", "b">>)}

RECURSIVE SeqsUpTo(_, _)
SeqsUpTo(S, n) ==
    IF n = 0 THEN {<<>>}
    ELSE LET prev == SeqsUpTo(S, n - 1)
         IN  prev \cup {Append(s, x) : s \in {t \in prev : Len(t) = n - 1},
                                       x \in S}

\* an absent list stands for the empty one
ListOpt(l) == IF l = <<>> THEN None ELSE Some(l)

SizeOf(p) ==
    1 + (IF p.userAgent.some THEN 1 ELSE 0)
      + (IF p.disallow.some THEN Len(p.disallow.val) ELSE 0)
      + (IF p.allow.some THEN Len(p.allow.val) ELSE 0)

RECURSIVE SeqsOfLen(_, _)
SeqsOfLen(S, k) ==
    IF k = 0 THEN {<<>>}
    ELSE {Append(s, x) : s \in SeqsOfLen(S, k - 1), x \in S}

\* the policies of size n
PoliciesOfSize(n) ==
    UNION {{[userAgent |-> ua, disallow |-> ListOpt(d), allow |-> ListOpt(a)] :
               ua \in {x \in UASet : x.some = (c[1] = 1)},
               d \in SeqsOfLen(PathSet, c[2]),
               a \in SeqsOfLen(PathSet, n - 1 - c[1] - c[2])} :
           c \in {x \in (0..1) \X (0..n) : x[1] + x[2] + 1 <= n}}

\* the policy sets of size at most m
RECURSIVE PolicySetsUpTo(_)
PolicySetsUpTo(m) ==
    {<<>>} \cup UNION {{<<p>> \o r : p \in PoliciesOfSize(n),
                                    r \in PolicySetsUpTo(m - n)} : n \in 1..m}

\* the policy sets serializePolicies is applied to
PolicySets == PolicySetsUpTo(MaxSize)

----------------------------------------------------------------------------
(* The pure function serializePolicies, applied to every policy set *)

\* no plugin object is involved: its variables stay at rest
Quiet ==
    /\ options = <<>>
    /\ mode = "production"
    /\ command = "build"
    /\ root = "/app"
    /\ base = None
    /\ outPath = <<>>
    /\ lastTxt = <<>>
    /\ route = None
    /\ fs = <<>>
    /\ writes = 0
    /\ wrote = "none"
    /\ emitted = None
    /\ response = None
    /\ call = NoCall

InitSerialize ==
    /\ file \in Files
    /\ input \in PolicySets
    /\ Quiet

SerializePolicies ==
    /\ call.kind = "none"
    /\ call' = serializeCall(file, input)
    /\ UNCHANGED <<file, options, mode, command, root, base, outPath, lastTxt,
                   route, fs, writes, wrote, emitted, response, input>>

NextSerialize == SerializePolicies

SpecSerialize == InitSerialize /\ [][NextSerialize]_vars

----------------------------------------------------------------------------
(* The pure function buildContent, applied to every context and options *)

PATH_ROOT == <<"/">>
PATH_SPACE == <<"/", " ">>

\* { userAgent: "g", disallow: ["/", "/", "/ "] }
POLICY_G ==
    [userAgent |-> Some(<<"g">>),
     disallow |-> Some(<<PATH_ROOT, PATH_ROOT, PATH_SPACE>>), allow |-> None]
\* { allow: ["/ "] }
POLICY_S ==
    [userAgent |-> None, disallow |-> None, allow |-> Some(<<PATH_SPACE>>)]

ExplicitPolicies ==
    {None, Some(<<>>), Some(<<POLICY_G>>), Some(<<POLICY_S, POLICY_G>>)}

NoFn == [m \in Modes |-> None]
NoBuilder == [present |-> FALSE, fn |-> NoFn]
PolicyBuilders ==
    {NoBuilder} \cup
    {[present |-> TRUE, fn |-> f] :
        f \in [Modes -> {None, Some(<<>>), Some(<<POLICY_S>>)}]}

\* sitemap urls: two plain ones, and one ending in two newlines
SitemapSet == {<<"u">>, <<"v">>, <<"u", "\n", "\n">>}
NoSitemaps == [kind |-> "absent", list |-> <<>>, fn |-> NoFn]
SitemapOptions ==
    {NoSitemaps}
    \cup {[kind |-> "list", list |-> l, fn |-> NoFn] :
             l \in SeqsUpTo(SitemapSet, MaxSitemaps)}
    \cup {[kind |-> "fn", list |-> <<>>, fn |-> f] :
             f \in [Modes -> {None, Some(<<>>), Some(<<<<"u">>>>)}]}

\* footers: empty, blank, plain, to be trimmed, with newlines inside
FooterSet ==
    {<<>>, <<" ">>, <<"f">>, <<" ", "f", " ">>, <<"f", "\n", "\n", "\n", "f">>}
NoFooter == [kind |-> "absent", str |-> <<>>, fn |-> NoFn]
FooterOptions ==
    {NoFooter}
    \cup {[kind |-> "string", str |-> x, fn |-> NoFn] : x \in FooterSet}
    \cup {[kind |-> "fn", str |-> <<>>, fn |-> f] :
             f \in [Modes -> {None, Some(<<"f">>)}]}

ContentOptions ==
    {[policies |-> p, policyBuilder |-> b, sitemaps |-> s, footerComment |-> c,
      filename |-> None, noStoreInDev |-> None, outputDir |-> None] :
        p \in ExplicitPolicies, b \in PolicyBuilders, s \in SitemapOptions,
        c \in FooterOptions}

Contexts ==
    {[mode |-> "production", command |-> "build", root |-> "/app"],
     [mode |-> "development", command |-> "serve", root |-> "/app"]}

InitContent ==
    /\ file \in Files
    /\ input \in Contexts
    /\ options \in ContentOptions
    /\ mode = "production"
    /\ command = "build"
    /\ root = "/app"
    /\ base = None
    /\ outPath = <<>>
    /\ lastTxt = <<>>
    /\ route = None
    /\ fs = <<>>
    /\ writes = 0
    /\ wrote = "none"
    /\ emitted = None
    /\ response = None
    /\ call = NoCall

BuildContent ==
    /\ call.kind = "none"
    /\ call' = buildContent(file, input, options)
    /\ UNCHANGED <<file, options, mode, command, root, base, outPath, lastTxt,
                   route, fs, writes, wrote, emitted, response, input>>

NextContent == BuildContent

SpecContent == InitContent /\ [][NextContent]_vars

----------------------------------------------------------------------------
(* The file system of part_001.  A directory is <<root, name>>, a file     *)
(* <<root, name, filename>>; fs is [dirs, files], files mapping each file  *)
(* to its content, None when it does not exist.                            *)

CWD == "/app"
Roots == {CWD, "/site"}
DirNames == {"static", "public", "out"}
Filenames == {DEFAULT_FILENAME}
FilePaths == Roots \X DirNames \X Filenames

\* path.dirname
dirname(filePath) == <<filePath[1], filePath[2]>>

\* if (explicit) return path.resolve(root, explicit);
\* if (fs.existsSync(static)) return static; return public
detectOutputDir(fsys, r, explicit) ==
    IF explicit.some THEN <<r, explicit.val>>
    ELSE IF <<r, "static">> \in fsys.dirs THEN <<r, "static">>
    ELSE <<r, "public">>

\* path.join(detectOutputDir(root, options.outputDir), filename)
outPathOf(fsys, r, opts) ==
    LET d == detectOutputDir(fsys, r, opts.outputDir)
    IN  <<d[1], d[2], IF opts.filename.some THEN opts.filename.val
                      ELSE DEFAULT_FILENAME>>

\* if (!fs.existsSync(dir)) fs.mkdirSync(dir, {recursive: true})
ensureDir(fsys, dir) == [fsys EXCEPT !.dirs = @ \cup {dir}]

\* a write only when the file does not exist yet
writeFileIfMissing(fsys, filePath, content) ==
    LET made == ensureDir(fsys, dirname(filePath))
    IN  IF ~made.files[filePath].some
        THEN [fs |-> [made EXCEPT !.files[filePath] = Some(content)],
              wrote |-> TRUE]
        ELSE [fs |-> made, wrote |-> FALSE]

\* writeFileIfChanged: the file system after the call, and whether
\* fs.writeFileSync was called
writeFileIfChanged(fsys, filePath, content) ==
    LET made == ensureDir(fsys, dirname(filePath))
        existed == made.files[filePath].some
        old == made.files[filePath].val
    IN  IF ~existed \/ old # content
        THEN [fs |-> [made EXCEPT !.files[filePath] = Some(content)],
              wrote |-> TRUE]
        ELSE [fs |-> made, wrote |-> FALSE]

----------------------------------------------------------------------------
(* The plugin object returned by generateRobotsTxt(options) *)

\* a builder that gives a policy in development only
DevPolicyBuilder ==
    [present |-> TRUE,
     fn |-> [m \in Modes |-> IF m = "development" THEN Some(<<POLICY_G>>)
                             ELSE None]]

PluginOptions ==
    {[policies |-> p, policyBuilder |-> b, sitemaps |-> NoSitemaps,
      footerComment |-> NoFooter, filename |-> None, noStoreInDev |-> ns,
      outputDir |-> o] :
        p \in {None, Some(<<POLICY_S>>)},
        b \in {NoBuilder, DevPolicyBuilder},
        ns \in {None, Some(FALSE)},
        o \in {None, Some("out")}}

\* the resolved configurations Vite hands to configResolved
Configs ==
    [root : {None, Some("/site")}, mode : Modes, command : Commands,
     base : {None, Some(<<"/", "a", "/", "/">>)}]

filenameOf(opts) ==
    IF opts.filename.some THEN opts.filename.val ELSE DEFAULT_FILENAME
noStoreOf(opts) ==
    IF opts.noStoreInDev.some THEN opts.noStoreInDev.val ELSE TRUE

RECURSIVE trimEndSlashes(_)
trimEndSlashes(s) ==
    IF s = <<>> \/ s[Len(s)] # "/" THEN s
    ELSE trimEndSlashes(SubSeq(s, 1, Len(s) - 1))

\* (resolvedConfig?.base ?? "/").replace(/\/+$/, "/")
baseOf(b) ==
    LET x == IF b.some THEN b.val ELSE <<"/">>
    IN  IF x # <<>> /\ x[Len(x)] = "/" THEN trimEndSlashes(x) \o <<"/">>
        ELSE x

NoRoute == [registered |-> FALSE, base |-> <<>>, filename |-> "", mode |-> ""]

\* the headers and body the middleware sends
responseOf(opts, body) ==
    Some([contentType |-> "text/plain; charset=utf-8",
          cacheControl |-> IF noStoreOf(opts)
                           THEN "no-store, no-cache, must-revalidate, max-age=0"
                           ELSE "",
          pragma |-> IF noStoreOf(opts) THEN "no-cache" ELSE "",
          expires |-> IF noStoreOf(opts) THEN "0" ELSE "",
          body |-> body])

Init ==
    /\ file \in Files
    /\ options \in PluginOptions
    /\ mode = "production"
    /\ command = "build"
    /\ root = CWD
    /\ base = None
    /\ lastTxt = <<>>
    /\ route = NoRoute
    /\ \E ds \in SUBSET {<<r, "static">> : r \in Roots} :
          fs = [dirs |-> ds, files |-> [f \in FilePaths |-> None]]
    /\ outPath = IF file = "index" THEN outPathOf(fs, root, options) ELSE <<>>
    /\ writes = 0
    /\ wrote = "none"
    /\ emitted = None
    /\ response = None
    /\ call = NoCall
    /\ input = <<>>

\* configResolved(config)
ConfigResolved ==
    \E config \in Configs :
        /\ root' = IF config.root.some THEN config.root.val ELSE CWD
        /\ mode' = config.mode
        /\ command' = config.command
        /\ IF file = "index"
           THEN /\ outPath' = outPathOf(fs, root', options)
                /\ base' = base
           ELSE /\ base' = config.base
                /\ outPath' = outPath
        /\ UNCHANGED <<file, options, lastTxt, route, fs, writes, wrote,
                       emitted, response, call, input>>

\* buildStart(): part_000 keeps the text, part_001 writes it to outPath
BuildStart ==
    /\ call' = buildContent(file, [mode |-> mode, command |-> command,
                                    root |-> root], options)
    /\ IF file = "index"
       THEN /\ writes < MaxWrites
            /\ LET w == writeFileIfChanged(fs, outPath, call'.txt)
               IN  /\ fs' = w.fs
                   /\ writes' = IF w.wrote THEN writes + 1 ELSE writes
                   /\ wrote' = IF w.wrote THEN "written" ELSE "skipped"
            /\ lastTxt' = lastTxt
       ELSE /\ lastTxt' = call'.txt
            /\ UNCHANGED <<fs, writes, wrote>>
    /\ UNCHANGED <<file, options, mode, command, root, base, outPath, route,
                   emitted, response, input>>

\* generateBundle(), a hook of part_000 only
GenerateBundle ==
    /\ file = "generate-robots"
    /\ call' = buildContent(file, [mode |-> mode, command |-> command,
                                    root |-> root], options)
    /\ lastTxt' = call'.txt
    /\ emitted' = Some([type |-> "asset", fileName |-> filenameOf(options),
                        source |-> call'.txt])
    /\ UNCHANGED <<file, options, mode, command, root, base, outPath, route,
                   fs, writes, wrote, response, input>>

\* configureServer(server): the middleware is registered on the route
ConfigureServer ==
    /\ ~route.registered
    /\ \E serverMode \in Modes :
          route' = IF file = "index"
                   THEN [registered |-> TRUE, base |-> <<"/">>,
                         filename |-> filenameOf(options), mode |-> serverMode]
                   ELSE [registered |-> TRUE, base |-> baseOf(base),
                         filename |-> filenameOf(options), mode |-> ""]
    /\ UNCHANGED <<file, options, mode, command, root, base, outPath, lastTxt,
                   fs, writes, wrote, emitted, response, call, input>>

\* the middleware answers a request for the route
Request ==
    /\ route.registered
    /\ call' = IF file = "index"
               THEN buildContent(file, [mode |-> route.mode,
                                        command |-> "serve", root |-> root],
                                 options)
               ELSE buildContent(file, [mode |-> mode, command |-> command,
                                        root |-> root], options)
    /\ lastTxt' = IF file = "index" THEN lastTxt ELSE call'.txt
    /\ response' = responseOf(options, call'.txt)
    /\ UNCHANGED <<file, options, mode, command, root, base, outPath, route,
                   fs, writes, wrote, emitted, input>>

Next ==
    \/ ConfigResolved
    \/ BuildStart
    \/ GenerateBundle
    \/ ConfigureServer
    \/ Request

Spec == Init /\ [][Next]_vars

----------------------------------------------------------------------------
(* Vocabulary of the properties *)

StartsWith(s, pre) == Len(s) >= Len(pre) /\ SubSeq(s, 1, Len(pre)) = pre
EndsWith(s, suf) ==
    Len(s) >= Len(suf) /\ SubSeq(s, Len(s) - Len(suf) + 1, Len(s)) = suf
Contains(s, sub) ==
    \E i \in 1..(Len(s) + 1 - Len(sub)) : SubSeq(s, i, i + Len(sub) - 1) = sub
DropPrefix(s, pre) == SubSeq(s, Len(pre) + 1, Len(s))

RECURSIVE SplitLines(_)
SplitLines(s) ==
    LET nls == {i \in 1..Len(s) : s[i] = "\n"}
    IN  IF nls = {} THEN <<s>>
        ELSE <<SubSeq(s, 1, Min(nls) - 1)>>
             \o SplitLines(SubSeq(s, Min(nls) + 1, Len(s)))

RECURSIVE Flatten(_)
Flatten(xss) == IF xss = <<>> THEN <<>> ELSE xss[1] \o Flatten(Tail(xss))

NewlineFree(s) == \A i \in 1..Len(s) : s[i] # "\n"
ListOf(opt) == IF opt.some THEN opt.val ELSE <<>>
Range(l) == {l[i] : i \in 1..Len(l)}
FirstIndex(l, x) == Min({i \in 1..Len(l) : l[i] = x})

\* u lists each distinct entry of l once, in the order of first occurrence
IsFirstOccurrenceDedup(l, u) ==
    /\ Range(u) = Range(l)
    /\ Len(u) = Cardinality(Range(l))
    /\ \A i, j \in 1..Len(u) : i < j => FirstIndex(l, u[i]) < FirstIndex(l, u[j])

ExplicitNonEmpty == options.policies.some /\ Len(options.policies.val) # 0
Built == call.kind = "buildContent"
Serialized == call.kind = "serializePolicies"

\* "User-agent: *\nAllow: /\n"
DEFAULT_HEAD == UA_PREFIX \o STAR \o NL \o ALLOW_PREFIX \o <<"/">> \o NL

----------------------------------------------------------------------------
(* Properties of buildContent (SpecContent) *)

\* C1: when a non-empty explicit policies list and a policyBuilder are both
\* supplied, the head is the serialization of the explicit list and the
\* builder is invoked zero times during the call.
C1_ExplicitListWins ==
    (Built /\ ExplicitNonEmpty /\ options.policyBuilder.present)
        => /\ call.head = serializePolicies(file, options.policies.val)
           /\ call.builderCalls = 0

\* a call with both supplied, where the builder would have returned a
\* different policy set
C1_Witness ==
    /\ Built /\ ExplicitNonEmpty /\ options.policyBuilder.present
    /\ options.policyBuilder.fn[input.mode] = Some(<<POLICY_S>>)
    /\ options.policies.val = <<POLICY_G>>

\* the first non-empty one among the explicit list, the builder's result and
\* the default policy
FirstNonEmptyPolicies ==
    LET r == options.policyBuilder.fn[input.mode]
    IN  IF ExplicitNonEmpty THEN options.policies.val
        ELSE IF options.policyBuilder.present /\ r.some /\ Len(r.val) # 0
        THEN r.val
        ELSE defaultPolicies

\* C2: the policy set rendered is the first non-empty one among the explicit
\* list, the builder's result and the default policy; in particular an empty
\* builder result renders the default policy.
C2_FirstNonEmptyWins ==
    Built => call.head = serializePolicies(file, FirstNonEmptyPolicies)

\* C3: with no explicit policies (absent or empty) and no policyBuilder the
\* head is exactly "User-agent: *\nAllow: /\n", and with no sitemaps and no
\* footer it is the whole output.
C3_DefaultHead ==
    (Built /\ ~ExplicitNonEmpty /\ ~options.policyBuilder.present)
        => /\ call.head = DEFAULT_HEAD
           /\ (/\ ListOf(call.sitemaps) = <<>>
               /\ ListOf(call.foot) = <<>>) => call.txt = call.head

\* the default policy rendered alone, from an empty explicit list
C3_Witness ==
    /\ Built /\ options.policies = Some(<<>>) /\ ~options.policyBuilder.present
    /\ options.sitemaps.kind = "absent" /\ options.footerComment.kind = "absent"
    /\ call.txt = DEFAULT_HEAD

\* no user-agent, path, sitemap or footer string of the call has a newline
CallNewlineFree ==
    /\ \A i \in 1..Len(call.policies) :
          /\ NewlineFree(ListOf(call.policies[i].userAgent))
          /\ \A x \in Range(ListOf(call.policies[i].disallow))
                     \cup Range(ListOf(call.policies[i].allow)) : NewlineFree(x)
    /\ \A x \in Range(ListOf(call.sitemaps)) : NewlineFree(x)
    /\ NewlineFree(ListOf(call.foot))

\* C6: when no user-agent, path, sitemap or footer string contains a newline,
\* the returned text has no run of three or more newlines anywhere and ends
\* with at most one blank line.
C6_NoTripleNewline ==
    (Built /\ CallNewlineFree)
        => /\ ~Contains(call.txt, NL \o NL \o NL)
           /\ trailingNewlines(call.txt) <= 2

\* two sitemaps and a footer after the head of an empty builder result
C6_Witness ==
    /\ Built /\ CallNewlineFree
    /\ call.foot = Some(<<" ", "f", " ">>)
    /\ Len(ListOf(call.sitemaps)) = 2
    /\ call.policies = <<>>

\* C7: a footer block is emitted iff the resolved footer is present and
\* non-blank after trimming; emitted, it is a blank line, "# " and the trimmed
\* footer, and a newline; otherwise the output has no "#" comment line.
C7_FooterIffNonBlank ==
    Built =>
        LET emit == call.foot.some /\ trim(call.foot.val) # <<>>
            ls == SplitLines(call.txt)
        IN  /\ emit => EndsWith(call.txt, NL \o NL \o FOOTER_PREFIX
                                          \o trim(call.foot.val) \o NL)
            /\ ~emit => \A i \in 1..Len(ls) : ~StartsWith(ls[i], <<"#">>)

\* the text of the sitemap lines of the call
SitemapLines ==
    Flatten([i \in 1..Len(call.sitemaps.val) |->
                SITEMAP_PREFIX \o call.sitemaps.val[i] \o NL])

\* C10: a non-empty resolved sitemap sequence gives one "Sitemap: <url>" line
\* per entry, in the given order, duplicates kept, one blank line after the
\* head and before any footer; an empty or absent one gives no Sitemap line.
C10_SitemapBlock ==
    Built =>
        IF ListOf(call.sitemaps) # <<>>
        THEN (\A x \in Range(call.sitemaps.val) : NewlineFree(x)) =>
                LET upto == call.head \o NL \o SitemapLines
                    rest == DropPrefix(call.txt, upto)
                IN  /\ StartsWith(call.txt, upto)
                    /\ ~Contains(rest, SITEMAP_PREFIX)
                    /\ rest # <<>> =>
                          /\ call.foot.some
                          /\ StartsWith(rest, NL \o FOOTER_PREFIX)
        ELSE ~Contains(call.txt, SITEMAP_PREFIX)

\* a repeated url, and a footer after it
C10_Witness ==
    /\ Built
    /\ call.sitemaps = Some(<<<<"u">>, <<"u">>>>)
    /\ call.foot = Some(<<"f">>)

----------------------------------------------------------------------------
(* Properties of serializePolicies (SpecSerialize) *)

\* the paths of the lines ls[from..to], each starting with pre
PathsOf(ls, from, to, pre) ==
    [j \in 1..(to + 1 - from) |-> DropPrefix(ls[from + j - 1], pre)]

\* the block of policy p is the User-agent line, one Disallow line per
\* distinct disallow entry, one Allow line per distinct allow entry, each in
\* the order of first occurrence
BlockShape(p, b) ==
    LET ls == SplitLines(b)
        nd == Cardinality(Range(ListOf(p.disallow)))
        na == Cardinality(Range(ListOf(p.allow)))
    IN  /\ Len(ls) = 1 + nd + na
        /\ StartsWith(ls[1], UA_PREFIX)
        /\ \A j \in 2..(1 + nd) : StartsWith(ls[j], DISALLOW_PREFIX)
        /\ \A j \in (2 + nd)..(1 + nd + na) : StartsWith(ls[j], ALLOW_PREFIX)
        /\ IsFirstOccurrenceDedup(ListOf(p.disallow),
                                  PathsOf(ls, 2, 1 + nd, DISALLOW_PREFIX))
        /\ IsFirstOccurrenceDedup(ListOf(p.allow),
                                  PathsOf(ls, 2 + nd, 1 + nd + na, ALLOW_PREFIX))

TrimmedLines(s) ==
    LET ls == SplitLines(s) IN [j \in 1..Len(ls) |-> trimEnd(ls[j])]

C5_BlankLineBetweenBlocks ==
    (Serialized /\ Len(input) >= 2) =>
        LET ls == SplitLines(call.head)
        IN  \A j \in 2..Len(ls) :
                StartsWith(ls[j], UA_PREFIX) => ls[j - 1] = <<>>

\* C8: the head is the newline-joined blocks with all trailing whitespace of
\* the concatenation removed and one newline appended: it ends with a
\* non-whitespace character and a single newline, and nothing but that
\* trailing whitespace is removed.
C8_HeadIsTrimmedJoin ==
    (Serialized /\ input # <<>>) =>
        LET joined == join(call.blocks, NL)
        IN  \E n \in 1..Len(joined) :
                /\ call.head = SubSeq(joined, 1, n) \o NL
                /\ joined[n] \notin WS
                /\ \A k \in (n + 1)..Len(joined) : joined[k] \in WS

----------------------------------------------------------------------------
(* Properties of the Emit Sink of part_001 (Spec) *)

\* C9: a writeFileIfChanged call (from buildStart) writes iff the file does
\* not exist or its content differs from the given content, so the same
\* content written twice is one write; after every call the file holds the
\* content of that call, and no other file is touched.
C9_WriteIffChanged ==
    [][(file = "index" /\ BuildStart) =>
          LET content == call'.txt
              before == fs.files[outPath]
          IN  /\ writes' = IF ~before.some \/ before.val # content
                           THEN writes + 1 ELSE writes
              /\ wrote' = "written" <=> writes' # writes
              /\ fs'.files[outPath] = Some(content)
              /\ \A f \in FilePaths \ {outPath} : fs'.files[f] = fs.files[f]]_vars

\* the same content written again to the same file: one write, then a skip
C9_Witness ==
    /\ file = "index"
    /\ writes = 1
    /\ wrote = "skipped"
    /\ fs.files[outPath] = Some(call.txt)

====
